---- MODULE Spec2Model ----
(***************************************************************************)
(* Model of the two utilities of the repository:                           *)
(*   src/src/logging_utils.py  generate_log_filename, setup_logging        *)
(*   src/conf/load_config.py   load_config                                 *)
(* Strings are sequences of one-character strings, so that str.upper(),    *)
(* strftime and path joins are computed and not assumed.  A path is a      *)
(* sequence of components; the empty path is the working directory.        *)
(***************************************************************************)
EXTENDS Integers, Sequences, FiniteSets

VARIABLES
    level,      \* root logger's severity threshold (logging.getLogger().level)
    handlers,   \* root logger's handler list (logging.getLogger().handlers)
    open,       \* ids of the FileHandlers whose stream is still open
    nextId,     \* identity of the next handler object constructed
    dirs,       \* directories present in the filesystem
    files,      \* regular files present: path -> sequence of lines
    console,    \* lines written to the console (sys.stderr)
    now,        \* index into Times: the current local time
    calls,      \* calls made so far: setup_logging, generate_log_filename, logger.<level>()
    last,       \* the last call: operation, arguments, outcome, and what it found
                \* (sinks attached, target directory present) when it began
    hydra,      \* GlobalHydra is initialized
    loads,      \* outcomes of the calls of load_config, oldest first
    source      \* state of the configuration source conf/config.yaml

vars == <<level, handlers, open, nextId, dirs, files, console, now, calls, last,
          hydra, loads, source>>

\* ------------------------------------------------------------------ bounds
MaxCalls == 2
MaxLoads == 3

\* ------------------------------------------------------------------ strings
Lower == <<"a","b","c","d","e","f","g","h","i","j","k","l","m",
           "n","o","p","q","r","s","t","u","v","w","x","y","z">>
Caps  == <<"A","B","C","D","E","F","G","H","I","J","K","L","M",
           "N","O","P","Q","R","S","T","U","V","W","X","Y","Z">>

\* str.upper() on one character
upper_char(c) ==
    IF \E i \in 1..Len(Lower) : Lower[i] = c
    THEN Caps[CHOOSE i \in 1..Len(Lower) : Lower[i] = c]
    ELSE c

\* level.upper()
upper(s) == [i \in 1..Len(s) |-> upper_char(s[i])]

Digits == <<"0","1","2","3","4","5","6","7","8","9">>
Digit(n) == Digits[n + 1]
\* strftime's zero-padded fields: %d %m %H %M %S and %Y
Pad2(n) == <<Digit((n \div 10) % 10), Digit(n % 10)>>
Pad4(n) == <<Digit((n \div 1000) % 10), Digit((n \div 100) % 10)>> \o Pad2(n % 100)

\* ------------------------------------------------------------------ the logging module
\* The upper-case attributes of Python's logging module, as getattr sees them.
LoggingAttrs ==
    { [name |-> <<"C","R","I","T","I","C","A","L">>, type |-> "int", val |-> 50],
      [name |-> <<"F","A","T","A","L">>,             type |-> "int", val |-> 50],
      [name |-> <<"E","R","R","O","R">>,             type |-> "int", val |-> 40],
      [name |-> <<"W","A","R","N","I","N","G">>,     type |-> "int", val |-> 30],
      [name |-> <<"W","A","R","N">>,                 type |-> "int", val |-> 30],
      [name |-> <<"I","N","F","O">>,                 type |-> "int", val |-> 20],
      [name |-> <<"D","E","B","U","G">>,             type |-> "int", val |-> 10],
      [name |-> <<"N","O","T","S","E","T">>,         type |-> "int", val |-> 0],
      [name |-> <<"B","A","S","I","C","_","F","O","R","M","A","T">>,
                                                     type |-> "str", val |-> 0] }

None == [type |-> "NoneType", val |-> 0]

\* getattr(logging, name, None)
getattr(name) ==
    IF \E a \in LoggingAttrs : a.name = name
    THEN LET a == CHOOSE a \in LoggingAttrs : a.name = name
         IN  [type |-> a.type, val |-> a.val]
    ELSE None

\* numeric_level = getattr(logging, level.upper(), None)
numeric_level(levelArg) == getattr(upper(levelArg))

\* variant: "numeric_level is not None" in place of the isinstance test
IsValidLevel_NotNone(levelArg) == numeric_level(levelArg).type # "NoneType"

\* isinstance(numeric_level, int)
IsValidLevel(levelArg) == numeric_level(levelArg).type = "int"

\* logging.getLevelName for the severities records carry
levelname(s) ==
    CASE s = 10 -> "DEBUG" [] s = 20 -> "INFO" [] s = 30 -> "WARNING"
      [] s = 40 -> "ERROR" [] s = 50 -> "CRITICAL" [] OTHER -> "Level"

\* ------------------------------------------------------------------ time
\* Sample values of datetime.now(): a moment, and a later one whose fields all
\* need zero padding.
Times ==
    << [d |-> 29, mo |-> 1,  y |-> 2026, h |-> 14, mi |-> 30, s |-> 52],
       [d |-> 3,  mo |-> 11, y |-> 2026, h |-> 9,  mi |-> 5,  s |-> 7] >>

\* variant: month before day, "%m%d%Y_%H%M%S"
strftime_MonthFirst(t) ==
    Pad2(t.mo) \o Pad2(t.d) \o Pad4(t.y) \o <<"_">> \o Pad2(t.h) \o Pad2(t.mi) \o Pad2(t.s)

\* datetime.strftime("%d%m%Y_%H%M%S")
strftime(t) ==
    Pad2(t.d) \o Pad2(t.mo) \o Pad4(t.y) \o <<"_">> \o Pad2(t.h) \o Pad2(t.mi) \o Pad2(t.s)

\* logging.Formatter.formatTime with datefmt '%Y-%m-%d %H:%M:%S'
asctime_of(t) ==
    Pad4(t.y) \o <<"-">> \o Pad2(t.mo) \o <<"-">> \o Pad2(t.d) \o <<" ">>
        \o Pad2(t.h) \o <<":">> \o Pad2(t.mi) \o <<":">> \o Pad2(t.s)

\* ------------------------------------------------------------------ paths and the filesystem
LOGS  == <<"l","o","g","s">>
OUT   == <<"o","u","t">>
NOTES == <<"n","o","t","e","s">>
MYRUN == <<"m","y","_","r","u","n",".","l","o","g">>
DOTLOG == <<".","l","o","g">>

\* pathlib: Path.parent and the ancestors a mkdir(parents=True) walks
parent(p)   == IF Len(p) = 0 THEN p ELSE SubSeq(p, 1, Len(p) - 1)
Prefixes(p) == { SubSeq(p, 1, k) : k \in 1..Len(p) }

\* Path.mkdir(parents=True, exist_ok=True): fails when the path or one of its
\* ancestors is a regular file, and otherwise leaves every ancestor a directory.
mkdir(p, D, F) ==
    IF \E q \in Prefixes(p) : q \in DOMAIN F
    THEN [ok |-> FALSE, dirs |-> D]
    ELSE [ok |-> TRUE,  dirs |-> D \cup Prefixes(p)]

\* generate_log_filename(log_dir) at time t
generate_log_filename(log_dir, D, F, t) ==
    LET made == mkdir(log_dir, D, F)
    IN  IF made.ok
        THEN [ok |-> TRUE,  dirs |-> made.dirs, path |-> Append(log_dir, strftime(t) \o DOTLOG)]
        ELSE [ok |-> FALSE, dirs |-> made.dirs, path |-> <<>>]

\* open(path, 'a') as logging.FileHandler does it: a directory cannot be opened,
\* a missing file is created empty, an existing one is kept.
OpenAppend(p, D, F) ==
    IF p \in D \/ Len(p) = 0 \/ parent(p) \notin (D \cup {<<>>})
    THEN [ok |-> FALSE, files |-> F]
    ELSE [ok |-> TRUE,
          files |-> [q \in DOMAIN F \cup {p} |-> IF q \in DOMAIN F THEN F[q] ELSE <<>>]]

\* ------------------------------------------------------------------ handlers and records
\* logging.FileHandler(output_file) after setLevel / setFormatter(formatter_file)
FileHandler(id, lvl, p) == [id |-> id, kind |-> "file", level |-> lvl, path |-> p]
\* logging.StreamHandler() after setLevel / setFormatter(formatter_console)
StreamHandler(id, lvl)  == [id |-> id, kind |-> "console", level |-> lvl, path |-> <<>>]

\* '%(asctime)s\t[%(levelname)s] %(name)s: %(message)s'
formatter_file(rec) ==
    [asctime |-> asctime_of(rec.t), levelname |-> levelname(rec.levelno),
     name |-> "root", message |-> rec.msg]
\* '[%(levelname)s] %(name)s: %(message)s'
formatter_console(rec) ==
    [asctime |-> <<>>, levelname |-> levelname(rec.levelno),
     name |-> "root", message |-> rec.msg]
\* logging.lastResort: the bare message
FormatLastResort(rec) ==
    [asctime |-> <<>>, levelname |-> "", name |-> "", message |-> rec.msg]

\* Logger.isEnabledFor with logging.disable left at 0
isEnabledFor(s, lvl) == ~(0 >= s) /\ s >= lvl

\* Logger.callHandlers: each attached handler whose threshold the record meets
RECURSIVE callHandlers(_, _, _, _)
callHandlers(hs, rec, F, con) ==
    IF Len(hs) = 0 THEN [files |-> F, console |-> con]
    ELSE LET h == Head(hs)
         IN  IF rec.levelno >= h.level
             THEN IF h.kind = "file"
                  THEN callHandlers(Tail(hs), rec,
                           [F EXCEPT ![h.path] = Append(@, formatter_file(rec))], con)
                  ELSE callHandlers(Tail(hs), rec, F, Append(con, formatter_console(rec)))
             ELSE callHandlers(Tail(hs), rec, F, con)

\* Logger.log / Logger.info: the threshold test, then the handlers, or
\* lastResort (threshold WARNING) when none is attached
logger_log(rec, lvl, hs, F, con) ==
    IF ~isEnabledFor(rec.levelno, lvl) THEN [files |-> F, console |-> con]
    ELSE IF Len(hs) = 0
         THEN [files |-> F,
               console |-> IF rec.levelno >= 30 THEN Append(con, FormatLastResort(rec)) ELSE con]
         ELSE callHandlers(hs, rec, F, con)

\* "Initialized logging. Log file: %s" % output_file
InitMessage(p) == [text |-> "Initialized logging. Log file: %s", arg |-> p]
OtherMessage   == [text |-> "x", arg |-> <<>>]

\* ------------------------------------------------------------------ inputs
\* level arguments: the five documented names in mixed case, the aliases and
\* NOTSET the logging module also defines, a non-integer attribute, an
\* arbitrary word and the empty string
LevelInputs ==
    { <<"d","e","b","u","g">>, <<"I","N","F","O">>, <<"W","a","r","n","i","n","g">>,
      <<"E","R","R","O","R">>, <<"c","r","i","t","i","c","a","l">>,
      <<"w","a","r","n">>, <<"F","A","T","A","L">>, <<"N","o","t","S","e","t">>,
      <<"b","a","s","i","c","_","f","o","r","m","a","t">>,
      <<"b","o","g","u","s">>, <<>> }

\* the level arguments of the runs that vary the target instead
FewLevels == { <<"d","e","b","u","g">>, <<"W","a","r","n","i","n","g">>,
               <<"b","o","g","u","s">> }

\* log_dir arguments: logs (missing or present), a nested directory, and a path
\* blocked by a regular file
LogDirs  == { <<LOGS>>, <<OUT, LOGS>>, <<NOTES>> }

\* (output_file, log_dir) arguments: output_file omitted, with the default
\* directory or a blocked one; output_file given, as a file in a directory yet
\* to be made or as the path of the logs directory itself
NoTarget == [given |-> FALSE, output_file |-> <<>>, log_dir |-> <<>>]
DefaultTarget == [given |-> FALSE, output_file |-> <<>>, log_dir |-> <<LOGS>>]
Targets  ==
    { DefaultTarget, [given |-> FALSE, output_file |-> <<>>, log_dir |-> <<NOTES>>],
      [given |-> TRUE, output_file |-> <<OUT, MYRUN>>, log_dir |-> <<LOGS>>],
      [given |-> TRUE, output_file |-> <<LOGS>>, log_dir |-> <<LOGS>>] }

\* the directory a call's log file goes to
TargetDir(target) ==
    IF target.given THEN parent(target.output_file) ELSE target.log_dir

\* whether the interpreter finalizes the handlers a call drops: a choice only
\* when a FileHandler is attached
HasFileHandler(hs) == \E i \in 1..Len(hs) : hs[i].kind = "file"
GcChoices(hs) == IF HasFileHandler(hs) THEN BOOLEAN ELSE {FALSE}

\* severities of logger.debug / info / warning / error / critical
Severities == {10, 20, 30, 40, 50}

\* ------------------------------------------------------------------ setup_logging
\* variant: the level is validated after the handlers were cleared
RaiseValueError_AfterClear(S) ==
    [level |-> S.level, handlers |-> <<>>, open |-> S.open, nextId |-> S.nextId,
     dirs |-> S.dirs, files |-> S.files, console |-> S.console,
     status |-> "ValueError", path |-> <<>>]

\* raise ValueError(...): nothing has been touched yet
RaiseValueError(S) ==
    [level |-> S.level, handlers |-> S.handlers, open |-> S.open, nextId |-> S.nextId,
     dirs |-> S.dirs, files |-> S.files, console |-> S.console,
     status |-> "ValueError", path |-> <<>>]

\* variant: the handlers of earlier calls are kept
handlers_clear_Keep(hs) == hs

\* logger.handlers.clear(): the list is emptied; nothing is closed
handlers_clear(hs) == <<>>

\* What becomes of the streams of the handlers clear() dropped: close() is never
\* called, so they stay open unless the interpreter happens to finalize the
\* unreferenced handler objects (gc).
Released(hs, gc) ==
    IF gc THEN { hs[i].id : i \in { j \in 1..Len(hs) : hs[j].kind = "file" } } ELSE {}

\* the if/else on output_file: the path of the log file and the directories made
ResolveTarget(target, D, F, t) ==
    IF ~target.given
    THEN generate_log_filename(target.log_dir, D, F, t)
    ELSE LET made == mkdir(parent(target.output_file), D, F)
         IN  [ok |-> made.ok, dirs |-> made.dirs, path |-> target.output_file]

\* a filesystem error leaves through setup_logging: what was done stays done
RaiseOSError(S, D) ==
    [level |-> S.level, handlers |-> S.handlers, open |-> S.open, nextId |-> S.nextId,
     dirs |-> D, files |-> S.files, console |-> S.console,
     status |-> "OSError", path |-> <<>>]

\* variant: the handlers are left at their default threshold, NOTSET
HandlerLevel_Default(numeric) == 0

\* the threshold given to file_handler.setLevel and console_handler.setLevel
HandlerLevel(numeric) == numeric

\* logger.addHandler(file_handler); logger.addHandler(console_handler)
addHandler(hs, id, numeric, p) ==
    Append(Append(hs, FileHandler(id, HandlerLevel(numeric), p)),
           StreamHandler(id + 1, HandlerLevel(numeric)))

\* variant: the confirmation is logged with logger.warning
logger_info_Warning(p, lvl, hs, F, con, t) ==
    logger_log([levelno |-> 30, msg |-> InitMessage(p), t |-> t], lvl, hs, F, con)

\* logger.info("Initialized logging. Log file: %s", output_file)
logger_info(p, lvl, hs, F, con, t) ==
    logger_log([levelno |-> 20, msg |-> InitMessage(p), t |-> t], lvl, hs, F, con)

\* variant: the log file is resolved and opened before the logger is touched,
\* so that a filesystem error leaves the logger as it was
setup_logging_ResolveFirst(levelArg, target, gc, S, t) ==
    IF ~IsValidLevel(levelArg) THEN RaiseValueError(S)
    ELSE
      LET numeric == numeric_level(levelArg).val
          tgt == ResolveTarget(target, S.dirs, S.files, t)
      IN  IF ~tgt.ok THEN RaiseOSError(S, tgt.dirs)
          ELSE
            LET opened == OpenAppend(tgt.path, tgt.dirs, S.files)
            IN  IF ~opened.ok THEN RaiseOSError(S, tgt.dirs)
                ELSE
                  LET hs  == addHandler(handlers_clear(S.handlers), S.nextId, numeric, tgt.path)
                      out == logger_info(tgt.path, numeric, hs, opened.files, S.console, t)
                  IN  [level |-> numeric, handlers |-> hs,
                       open |-> (S.open \ Released(S.handlers, gc)) \cup {S.nextId},
                       nextId |-> S.nextId + 2,
                       dirs |-> tgt.dirs, files |-> out.files, console |-> out.console,
                       status |-> "ok", path |-> tgt.path]

\* setup_logging(level, output_file, log_dir) on logger/filesystem state S at time t
setup_logging(levelArg, target, gc, S, t) ==
    IF ~IsValidLevel(levelArg) THEN RaiseValueError(S)
    ELSE
      LET numeric == numeric_level(levelArg).val
          S2  == [S EXCEPT !.level = numeric,
                           !.handlers = handlers_clear(S.handlers),
                           !.open = S.open \ Released(S.handlers, gc)]
          tgt == ResolveTarget(target, S2.dirs, S2.files, t)
      IN  IF ~tgt.ok THEN RaiseOSError(S2, tgt.dirs)
          ELSE
            LET opened == OpenAppend(tgt.path, tgt.dirs, S2.files)
            IN  IF ~opened.ok THEN RaiseOSError(S2, tgt.dirs)
                ELSE
                  LET hs  == addHandler(S2.handlers, S2.nextId, numeric, tgt.path)
                      out == logger_info(tgt.path, numeric, hs, opened.files, S2.console, t)
                  IN  [level |-> numeric, handlers |-> hs,
                       open |-> S2.open \cup {S2.nextId}, nextId |-> S2.nextId + 2,
                       dirs |-> tgt.dirs, files |-> out.files, console |-> out.console,
                       status |-> "ok", path |-> tgt.path]

State ==
    [level |-> level, handlers |-> handlers, open |-> open, nextId |-> nextId,
     dirs |-> dirs, files |-> files, console |-> console]

Call_setup_logging(levelArg, target, gc) ==
    /\ calls < MaxCalls
    /\ LET r == setup_logging(levelArg, target, gc, State, Times[now])
       IN  /\ level' = r.level
           /\ handlers' = r.handlers
           /\ open' = r.open
           /\ nextId' = r.nextId
           /\ dirs' = r.dirs
           /\ files' = r.files
           /\ console' = r.console
           /\ last' = [op |-> "setup_logging", status |-> r.status, levelArg |-> levelArg,
                       target |-> target, ret |-> r.path, t |-> now, levelno |-> 0,
                       sinks |-> Len(handlers), existed |-> TargetDir(target) \in dirs]
    /\ calls' = calls + 1
    /\ UNCHANGED <<now, hydra, loads, source>>

\* a direct call of generate_log_filename(log_dir)
Call_generate_log_filename(log_dir) ==
    /\ calls < MaxCalls
    /\ LET r == generate_log_filename(log_dir, dirs, files, Times[now])
       IN  /\ dirs' = r.dirs
           /\ last' = [op |-> "generate_log_filename",
                       status |-> IF r.ok THEN "ok" ELSE "OSError", levelArg |-> <<>>,
                       target |-> [given |-> FALSE, output_file |-> <<>>, log_dir |-> log_dir],
                       ret |-> r.path, t |-> now, levelno |-> 0,
                       sinks |-> Len(handlers), existed |-> log_dir \in dirs]
    /\ calls' = calls + 1
    /\ UNCHANGED <<level, handlers, open, nextId, files, console, now,
                   hydra, loads, source>>

\* another module logs a record: logging.getLogger(__name__).info(...) and the like
Log(s) ==
    /\ calls < MaxCalls
    /\ LET out == logger_log([levelno |-> s, msg |-> OtherMessage, t |-> Times[now]],
                            level, handlers, files, console)
       IN  /\ files' = out.files
           /\ console' = out.console
    /\ calls' = calls + 1
    /\ last' = [op |-> "log", status |-> "ok", levelArg |-> <<>>, target |-> NoTarget,
                ret |-> <<>>, t |-> now, levelno |-> s,
                sinks |-> Len(handlers), existed |-> FALSE]
    /\ UNCHANGED <<level, handlers, open, nextId, dirs, now, hydra, loads, source>>

\* the wall clock moves on
Tick ==
    /\ now < Len(Times)
    /\ now' = now + 1
    /\ UNCHANGED <<level, handlers, open, nextId, dirs, files, console, calls, last,
                   hydra, loads, source>>

\* ------------------------------------------------------------------ load_config
\* compose(config_name="config"): needs GlobalHydra initialized and the source readable
compose(initialized, src) ==
    IF ~initialized THEN [ok |-> FALSE, value |-> "GlobalHydra is not initialized"]
    ELSE IF src # "ok" THEN [ok |-> FALSE, value |-> "MissingConfigException"]
    ELSE [ok |-> TRUE, value |-> "config"]

\* load_config(): compose, then GlobalHydra.instance().clear(), then return cfg;
\* an exception of compose leaves before clear()
load_config ==
    /\ Len(loads) < MaxLoads
    /\ LET cfg == compose(hydra, source)
       IN  /\ loads' = Append(loads, cfg)
           /\ hydra' = IF cfg.ok THEN FALSE ELSE hydra
    /\ UNCHANGED <<source, level, handlers, open, nextId, dirs, files, console, now,
                   calls, last>>

\* ------------------------------------------------------------------ specification
\* The interpreter's root logger starts at WARNING with no handlers; the working
\* directory holds a regular file "notes" and may already hold logs/.  Importing
\* load_config runs initialize(config_path="../conf", ...) once.
Init ==
    /\ level = 30
    /\ handlers = <<>>
    /\ open = {}
    /\ nextId = 1
    /\ dirs \in { {}, {<<LOGS>>} }
    /\ files = [p \in {<<NOTES>>} |-> <<>>]
    /\ console = <<>>
    /\ now = 1
    /\ calls = 0
    /\ last = [op |-> "none", status |-> "none", levelArg |-> <<>>, target |-> NoTarget,
               ret |-> <<>>, t |-> 1, levelno |-> 0, sinks |-> 0, existed |-> FALSE]
    /\ hydra = TRUE
    /\ loads = <<>>
    /\ source \in {"ok", "missing"}

\* runs that vary the target and the filesystem
NextLog ==
    \/ \E levelArg \in FewLevels, target \in Targets, gc \in GcChoices(handlers) :
           Call_setup_logging(levelArg, target, gc)
    \/ \E log_dir \in LogDirs : Call_generate_log_filename(log_dir)
    \/ \E s \in Severities : Log(s)
    \/ Tick

\* runs that vary the level name
NextLevels ==
    \/ \E levelArg \in LevelInputs, gc \in GcChoices(handlers) :
           Call_setup_logging(levelArg, DefaultTarget, gc)
    \/ \E s \in Severities : Log(s)
    \/ Tick

\* runs of the whole repository
Next ==
    \/ NextLog
    \/ load_config

Spec       == Init /\ [][Next]_vars
SpecLog    == Init /\ [][NextLog]_vars
SpecLevels == Init /\ [][NextLevels]_vars

\* ------------------------------------------------------------------ vocabulary of the properties
\* the level names the documentation lists, and all the names the code accepts
FiveNames ==
    { <<"D","E","B","U","G">>, <<"I","N","F","O">>, <<"W","A","R","N","I","N","G">>,
      <<"E","R","R","O","R">>, <<"C","R","I","T","I","C","A","L">> }
EightNames ==
    FiveNames \cup { <<"W","A","R","N">>, <<"F","A","T","A","L">>, <<"N","O","T","S","E","T">> }

\* the severity each accepted name stands for
NamedSeverity(u) ==
    CASE u = <<"D","E","B","U","G">> -> 10
      [] u = <<"I","N","F","O">> -> 20
      [] u \in { <<"W","A","R","N","I","N","G">>, <<"W","A","R","N">> } -> 30
      [] u = <<"E","R","R","O","R">> -> 40
      [] u \in { <<"C","R","I","T","I","C","A","L">>, <<"F","A","T","A","L">> } -> 50
      [] u = <<"N","O","T","S","E","T">> -> 0
      [] OTHER -> -1

\* this step is a call of setup_logging / generate_log_filename / a logged record
SetupStep    == calls' = calls + 1 /\ last'.op = "setup_logging"
GenerateStep == calls' = calls + 1 /\ last'.op = "generate_log_filename"
LogStep      == calls' = calls + 1 /\ last'.op = "log"

\* the lines of file p, none when it does not exist
Content(F, p) == IF p \in DOMAIN F THEN F[p] ELSE <<>>

\* new is old with exactly one line appended, the confirmation naming path p
IsConfirmation(line, p) ==
    /\ line.levelname = "INFO"
    /\ line.message = [text |-> "Initialized logging. Log file: %s", arg |-> p]
OneConfirmationAppended(old, new, p) ==
    /\ Len(new) = Len(old) + 1
    /\ SubSeq(new, 1, Len(old)) = old
    /\ IsConfirmation(new[Len(new)], p)

\* reading a fixed-width decimal field back
DigitChars == { Digits[i] : i \in 1..10 }
DigitValue(c) == (CHOOSE i \in 1..10 : Digits[i] = c) - 1
RECURSIVE ParseNum(_)
ParseNum(cs) ==
    IF Len(cs) = 0 THEN 0
    ELSE 10 * ParseNum(SubSeq(cs, 1, Len(cs) - 1)) + DigitValue(cs[Len(cs)])

\* name is DDMMYYYY_HHMMSS.log for the moment t
IsTimestampName(name, t) ==
    /\ Len(name) = 19
    /\ \A i \in (1..8) \cup (10..15) : name[i] \in DigitChars
    /\ name[9] = "_"
    /\ SubSeq(name, 16, 19) = <<".","l","o","g">>
    /\ ParseNum(SubSeq(name, 1, 2)) = t.d
    /\ ParseNum(SubSeq(name, 3, 4)) = t.mo
    /\ ParseNum(SubSeq(name, 5, 8)) = t.y
    /\ ParseNum(SubSeq(name, 10, 11)) = t.h
    /\ ParseNum(SubSeq(name, 12, 13)) = t.mi
    /\ ParseNum(SubSeq(name, 14, 15)) = t.s

\* ------------------------------------------------------------------ properties

\* C1: after a call of setup_logging that completes, exactly two sinks are
\* attached to the root logger, one file sink and one console sink, whatever
\* was attached before and however many calls came before.
C1_ExactlyTwoSinks ==
    [][ (SetupStep /\ last'.status = "ok") =>
          /\ Len(handlers') = 2
          /\ Cardinality({ i \in 1..Len(handlers') : handlers'[i].kind = "file" }) = 1
          /\ Cardinality({ i \in 1..Len(handlers') : handlers'[i].kind = "console" }) = 1
      ]_vars
\* a call completed on a logger that already carried the two sinks of an earlier call
C1_Witness ==
    /\ last.op = "setup_logging" /\ last.status = "ok"
    /\ last.sinks = 2 /\ Len(handlers) = 2

\* C2: a call of setup_logging whose level name is rejected raises ValueError
\* before any mutation: handler list, threshold, open streams, directories,
\* files and console output are what they were.
C2_RejectedLevelLeavesState ==
    [][ (SetupStep /\ last'.status = "ValueError") =>
          /\ handlers' = handlers
          /\ level' = level
          /\ open' = open
          /\ dirs' = dirs
          /\ files' = files
          /\ console' = console
      ]_vars
\* a rejected call on a configured logger: its two sinks and its threshold remain
C2_Witness ==
    /\ last.op = "setup_logging" /\ last.status = "ValueError"
    /\ last.sinks = 2 /\ Len(handlers) = 2 /\ level = 10

\* C3 as stated: a level is accepted exactly when, upper-cased, it is one of
\* DEBUG, INFO, WARNING, ERROR, CRITICAL.
C3_OnlyFiveNamesAccepted ==
    last.op = "setup_logging" =>
        (last.status # "ValueError" <=> upper(last.levelArg) \in FiveNames)
\* C3 amended: a level is accepted exactly when level.upper() is one of DEBUG,
\* INFO, WARNING, WARN, ERROR, CRITICAL, FATAL, NOTSET; every other string
\* raises ValueError.
C3_IntegerAttributesAccepted ==
    last.op = "setup_logging" =>
        (last.status # "ValueError" <=> upper(last.levelArg) \in EightNames)
\* "warn" was accepted and the logger configured at WARNING
C3_Witness ==
    /\ last.op = "setup_logging" /\ last.status = "ok"
    /\ last.levelArg = <<"w","a","r","n">>
    /\ level = 30 /\ Len(handlers) = 2

\* C4: load_config can be called repeatedly: with a readable source every
\* call, the second and later ones included, returns the composed mapping, and
\* consecutive calls return equal mappings.
C4_EveryLoadReturns ==
    source = "ok" =>
        \A i \in 1..Len(loads) : loads[i].ok /\ loads[i].value = loads[1].value

\* C5: after any sequence of successful calls of setup_logging at most one
\* file handle opened by setup_logging is still open.
C5_AtMostOneOpenStream ==
    Cardinality(open) <= 1

\* C6 as stated: every successful call of setup_logging, for every accepted
\* level, writes exactly one confirmation record at INFO, naming the resolved
\* path, to the new log file and to the console.
C6_ConfirmationAlwaysWritten ==
    [][ (SetupStep /\ last'.status = "ok") =>
          /\ OneConfirmationAppended(Content(files, last'.ret), files'[last'.ret], last'.ret)
          /\ OneConfirmationAppended(console, console', last'.ret)
      ]_vars
\* C6 amended: a successful call whose level resolves to INFO or lower (DEBUG,
\* INFO, NOTSET) writes exactly one confirmation record at INFO, naming the
\* resolved path, to the new log file and to the console; a successful call
\* with a higher level (WARNING, WARN, ERROR, CRITICAL, FATAL) writes nothing.
C6_ConfirmationWhenInfoEnabled ==
    [][ (SetupStep /\ last'.status = "ok") =>
          IF NamedSeverity(upper(last'.levelArg)) <= 20
          THEN /\ OneConfirmationAppended(Content(files, last'.ret), files'[last'.ret],
                                          last'.ret)
               /\ OneConfirmationAppended(console, console', last'.ret)
          ELSE /\ files'[last'.ret] = Content(files, last'.ret)
               /\ console' = console
      ]_vars
\* a call at INFO whose confirmation is the last line of its file and of the console
C6_Witness ==
    /\ last.op = "setup_logging" /\ last.status = "ok"
    /\ last.levelArg = <<"I","N","F","O">>
    /\ Len(console) >= 1 /\ IsConfirmation(console[Len(console)], last.ret)
    /\ Len(files[last.ret]) >= 1
    /\ IsConfirmation(files[last.ret][Len(files[last.ret])], last.ret)

\* C7: after load_config finishes, by returning or by raising, the global
\* composition context is cleared.
C7_ContextClearedAfterLoad ==
    Len(loads) > 0 => ~hydra

\* C8: generate_log_filename(log_dir), when no regular file is in the way,
\* succeeds whether or not log_dir exists, leaves log_dir and its ancestors
\* existing, and returns log_dir joined with DDMMYYYY_HHMMSS.log of the current
\* time; a second call with the same directory in the same second returns the
\* same path and does not fail because the directory is present.
C8_TimestampedPath ==
    [][ (GenerateStep /\ \A q \in Prefixes(last'.target.log_dir) : q \notin DOMAIN files) =>
          /\ last'.status = "ok"
          /\ Prefixes(last'.target.log_dir) \subseteq dirs'
          /\ Len(last'.ret) = Len(last'.target.log_dir) + 1
          /\ parent(last'.ret) = last'.target.log_dir
          /\ IsTimestampName(last'.ret[Len(last'.ret)], Times[now])
          /\ ( ( /\ last.op = "generate_log_filename" /\ last.status = "ok"
                 /\ last.target = last'.target /\ last.t = now )
               => last'.ret = last.ret )
      ]_vars
\* a second call for a directory that was already there, in the later second
C8_Witness ==
    /\ last.op = "generate_log_filename" /\ last.status = "ok"
    /\ last.existed /\ calls = 2 /\ last.t = 2
    /\ last.target.log_dir = <<OUT, LOGS>>

\* C9: when setup_logging, called with an accepted level, fails later with a
\* filesystem error, nothing is rolled back: the root logger is left with no
\* sinks and with the new threshold, even if it had two sinks before.
C9_FailureLeavesNoSinks ==
    [][ (SetupStep /\ last'.status = "OSError") =>
          /\ Len(handlers') = 0
          /\ level' = NamedSeverity(upper(last'.levelArg))
          /\ last'.ret = <<>>
      ]_vars
\* a call that failed on the filesystem after it found two sinks attached
C9_Witness ==
    /\ last.op = "setup_logging" /\ last.status = "OSError"
    /\ last.sinks = 2 /\ Len(handlers) = 0 /\ level = 10

\* C10: after a successful setup_logging(level=L) the thresholds of the root
\* logger, the file sink and the console sink all equal the severity L names;
\* a record of severity s logged through the configured root logger is written
\* to both sinks if s is at least the threshold and to neither otherwise.
C10_ThresholdsFilterRecords ==
    [][ /\ (SetupStep /\ last'.status = "ok") =>
              /\ level' = NamedSeverity(upper(last'.levelArg))
              /\ \A i \in 1..Len(handlers') : handlers'[i].level = level'
        /\ (LogStep /\ Len(handlers) = 2) =>
              LET p == handlers[1].path
              IN  IF last'.levelno >= level
                  THEN /\ Len(files'[p]) = Len(files[p]) + 1
                       /\ files'[p][Len(files'[p])].levelname = levelname(last'.levelno)
                       /\ Len(console') = Len(console) + 1
                       /\ console'[Len(console')].levelname = levelname(last'.levelno)
                  ELSE files' = files /\ console' = console
      ]_vars
\* an INFO record dropped by a logger configured at WARNING
C10_Witness ==
    /\ last.op = "log" /\ last.levelno = 20
    /\ last.sinks = 2 /\ Len(handlers) = 2 /\ level = 30
    /\ console = <<>>

====
